---- MODULE Spec2Model ----
(***************************************************************************)
(* A model of collatz.py: a 10-state one-dimensional cellular automaton    *)
(* whose local rule performs the steps of the Collatz iteration.           *)
(*                                                                         *)
(* Cell states are modelled as records: the Python value "S" is Blank, the *)
(* integers 0 and 1 are Zero and One, and a tuple (x, y) is Carry(x, y).   *)
(* A tape is a Python string, modelled as a sequence of one-character      *)
(* strings.  A raised ValueError is modelled by a distinguished value of   *)
(* the result's kind (ValueError, RaisedChar, RaisedTape, RaisedInt).      *)
(***************************************************************************)
EXTENDS Integers, Sequences, FiniteSets, TLC

VARIABLES
  n,        \* run / test_multiply: the integer being processed
  s,        \* the current tape (a string)
  steps,    \* run: ticks applied so far
  maxlen,   \* run: longest tape seen so far
  pc,       \* position of the running function
  out,      \* run: the lines printed so far (one tape per generation)
  ret,      \* the value returned by the running function
  s_old,    \* test_multiply: the tape before the latest tick
  left,     \* rule application: the left neighbour
  c,        \* rule application: the centre cell
  right,    \* rule application: the right neighbour
  rule,     \* which rule is applied: "collatz" or "multiply"
  res,      \* rule application: the value returned
  t,        \* iterate_rule: the output slots of the tick in progress
  s2,       \* a second input tape (for comparing two ticks)
  t2,       \* the output slots computed for s2
  i         \* the position under observation

vars == <<n, s, steps, maxlen, pc, out, ret, s_old, left, c, right, rule, res, t, s2, t2, i>>

(***************************************************************************)
(* Bounds of the model.                                                    *)
(***************************************************************************)
MaxN == 30          \* run is started on every n in 1..MaxN (and on DriverInput)
MaxSteps == 600     \* cap on the ticks of one run
MaxInterior == 2    \* longest tape interior drawn for the stepper
MaxDivN == 100      \* division is started on every even n in 2..MaxDivN
MaxTapeLen == 3     \* longest arbitrary string handed to iterate_rule

(***************************************************************************)
(* Program constants.                                                      *)
(***************************************************************************)
DriverInput == 6171
MultiplyFirst == 3
MultiplyStop == 100

(***************************************************************************)
(* The Cell States.                                                        *)
(***************************************************************************)
Blank == [tag |-> "S"]
Digit(d) == [tag |-> "digit", v |-> d]
Zero == Digit(0)
One == Digit(1)
Carry(x, y) == [tag |-> "carry", bit |-> x, count |-> y]

ValueError == [tag |-> "ValueError"]
RaisedChar == "ValueError"
RaisedTape == <<"ValueError">>
RaisedInt == -1

symbols ==
  << Blank, Zero, One, Carry(0,0), Carry(0,1), Carry(0,2),
     Carry(1,0), Carry(1,1), Carry(1,2), Carry(1,3) >>

States == { symbols[k] : k \in 1..Len(symbols) }

Plain == {Blank, Zero, One}

(***************************************************************************)
(* Faulty variants of collatz_rule, used to show that the checked          *)
(* properties depend on the rule.                                          *)
(***************************************************************************)
\* rule 1 erases the rightmost digit whatever it is (the parity is not tested)
collatz_rule_EraseAny(l, ce, r) ==
  IF r = Blank /\ ce \in {Zero, One} THEN Blank
  ELSE IF ce \notin Plain THEN
    IF ce.count % 2 = 1 THEN One
    ELSE IF r = Blank THEN Blank
    ELSE Zero
  ELSE IF r \notin Plain THEN
    LET x == r.bit
        y == r.count
        z == IF ce = One THEN 1 ELSE 0
    IN  IF ce = Blank /\ z = 0 /\ z + x + (y \div 2) = 0
        THEN Blank
        ELSE Carry(z, z + x + (y \div 2))
  ELSE ce

\* rule 1 keeps the rightmost Zero (no division)
collatz_rule_NoDivide(l, ce, r) ==
  IF r = Blank /\ ce = Zero THEN Zero
  ELSE IF r = Blank /\ ce = One THEN Carry(1, 2)
  ELSE IF ce \notin Plain THEN
    IF ce.count % 2 = 1 THEN One
    ELSE IF r = Blank THEN Blank
    ELSE Zero
  ELSE IF r \notin Plain THEN
    LET x == r.bit
        y == r.count
        z == IF ce = One THEN 1 ELSE 0
    IN  IF ce = Blank /\ z = 0 /\ z + x + (y \div 2) = 0
        THEN Blank
        ELSE Carry(z, z + x + (y \div 2))
  ELSE ce

\* rule 2 seeds the carry without the "+ 1"
collatz_rule_SeedNoAdd(l, ce, r) ==
  IF r = Blank /\ ce = Zero THEN Blank
  ELSE IF r = Blank /\ ce = One THEN Carry(1, 1)
  ELSE IF ce \notin Plain THEN
    IF ce.count % 2 = 1 THEN One
    ELSE IF r = Blank THEN Blank
    ELSE Zero
  ELSE IF r \notin Plain THEN
    LET x == r.bit
        y == r.count
        z == IF ce = One THEN 1 ELSE 0
    IN  IF ce = Blank /\ z = 0 /\ z + x + (y \div 2) = 0
        THEN Blank
        ELSE Carry(z, z + x + (y \div 2))
  ELSE ce

\* rule 4 adds the whole count of the right neighbour instead of its half
collatz_rule_NoHalve(l, ce, r) ==
  IF r = Blank /\ ce = Zero THEN Blank
  ELSE IF r = Blank /\ ce = One THEN Carry(1, 2)
  ELSE IF ce \notin Plain THEN
    IF ce.count % 2 = 1 THEN One
    ELSE IF r = Blank THEN Blank
    ELSE Zero
  ELSE IF r \notin Plain THEN
    LET x == r.bit
        y == r.count
        z == IF ce = One THEN 1 ELSE 0
    IN  IF ce = Blank /\ z = 0 /\ z + x + y = 0
        THEN Blank
        ELSE Carry(z, z + x + y)
  ELSE ce

\* rule 3 erases every Carry State of even count (the test of right is missing)
collatz_rule_CarryToBlank(l, ce, r) ==
  IF r = Blank /\ ce = Zero THEN Blank
  ELSE IF r = Blank /\ ce = One THEN Carry(1, 2)
  ELSE IF ce \notin Plain THEN
    IF ce.count % 2 = 1 THEN One
    ELSE Blank
  ELSE IF r \notin Plain THEN
    LET x == r.bit
        y == r.count
        z == IF ce = One THEN 1 ELSE 0
    IN  IF ce = Blank /\ z = 0 /\ z + x + (y \div 2) = 0
        THEN Blank
        ELSE Carry(z, z + x + (y \div 2))
  ELSE ce

\* rule 4 stores the parity of the sum as the bit, instead of the cell's digit z
collatz_rule_ParityBit(l, ce, r) ==
  IF r = Blank /\ ce = Zero THEN Blank
  ELSE IF r = Blank /\ ce = One THEN Carry(1, 2)
  ELSE IF ce \notin Plain THEN
    IF ce.count % 2 = 1 THEN One
    ELSE IF r = Blank THEN Blank
    ELSE Zero
  ELSE IF r \notin Plain THEN
    LET x == r.bit
        y == r.count
        z == IF ce = One THEN 1 ELSE 0
    IN  IF ce = Blank /\ z = 0 /\ z + x + (y \div 2) = 0
        THEN Blank
        ELSE Carry((z + x + (y \div 2)) % 2, z + x + (y \div 2))
  ELSE ce

\* rule 3 settles only the odd counts: a Carry State of even count stays
collatz_rule_EvenCarryStays(l, ce, r) ==
  IF r = Blank /\ ce = Zero THEN Blank
  ELSE IF r = Blank /\ ce = One THEN Carry(1, 2)
  ELSE IF ce \notin Plain THEN
    IF ce.count % 2 = 1 THEN One
    ELSE ce
  ELSE IF r \notin Plain THEN
    LET x == r.bit
        y == r.count
        z == IF ce = One THEN 1 ELSE 0
    IN  IF ce = Blank /\ z = 0 /\ z + x + (y \div 2) = 0
        THEN Blank
        ELSE Carry(z, z + x + (y \div 2))
  ELSE ce

\* rule 4 leaves a Blank centre Blank: the carry out of the top digit is lost
collatz_rule_DropOverflow(l, ce, r) ==
  IF r = Blank /\ ce = Zero THEN Blank
  ELSE IF r = Blank /\ ce = One THEN Carry(1, 2)
  ELSE IF ce \notin Plain THEN
    IF ce.count % 2 = 1 THEN One
    ELSE IF r = Blank THEN Blank
    ELSE Zero
  ELSE IF r \notin Plain THEN
    LET x == r.bit
        y == r.count
        z == IF ce = One THEN 1 ELSE 0
    IN  IF ce = Blank
        THEN Blank
        ELSE Carry(z, z + x + (y \div 2))
  ELSE ce

\* rule 4 leaves the centre's own digit z out of the sum
collatz_rule_SumWithoutZ(l, ce, r) ==
  IF r = Blank /\ ce = Zero THEN Blank
  ELSE IF r = Blank /\ ce = One THEN Carry(1, 2)
  ELSE IF ce \notin Plain THEN
    IF ce.count % 2 = 1 THEN One
    ELSE IF r = Blank THEN Blank
    ELSE Zero
  ELSE IF r \notin Plain THEN
    LET x == r.bit
        y == r.count
        z == IF ce = One THEN 1 ELSE 0
    IN  IF ce = Blank /\ z = 0 /\ x + (y \div 2) = 0
        THEN Blank
        ELSE Carry(z, x + (y \div 2))
  ELSE ce

\* the default branch reads left: a Zero next to the left Blank is erased
collatz_rule_UsesLeft(l, ce, r) ==
  IF r = Blank /\ ce = Zero THEN Blank
  ELSE IF r = Blank /\ ce = One THEN Carry(1, 2)
  ELSE IF ce \notin Plain THEN
    IF ce.count % 2 = 1 THEN One
    ELSE IF r = Blank THEN Blank
    ELSE Zero
  ELSE IF r \notin Plain THEN
    LET x == r.bit
        y == r.count
        z == IF ce = One THEN 1 ELSE 0
    IN  IF ce = Blank /\ z = 0 /\ z + x + (y \div 2) = 0
        THEN Blank
        ELSE Carry(z, z + x + (y \div 2))
  ELSE IF l = Blank /\ ce = Zero THEN Blank
  ELSE ce

(***************************************************************************)
(* collatz_rule(left, c, right): the next value of the centre cell.        *)
(***************************************************************************)
collatz_rule(l, ce, r) ==
  IF r = Blank /\ ce = Zero THEN Blank
  ELSE IF r = Blank /\ ce = One THEN Carry(1, 2)
  ELSE IF ce \notin Plain THEN
    IF ce.count % 2 = 1 THEN One
    ELSE IF r = Blank THEN Blank
    ELSE Zero
  ELSE IF r \notin Plain THEN
    LET x == r.bit
        y == r.count
        z == IF ce = One THEN 1 ELSE 0
    IN  IF ce = Blank /\ z = 0 /\ z + x + (y \div 2) = 0
        THEN Blank
        ELSE Carry(z, z + x + (y \div 2))
  ELSE ce

\* faulty variant: a Carry State resolves to its bit instead of its count's parity
multiply_add_one_rule_Bit(l, ce, r) ==
  IF r = Blank /\ ce \in {Zero, One} THEN ce
  ELSE IF ce \notin Plain THEN Digit(ce.bit)
  ELSE collatz_rule(l, ce, r)

(***************************************************************************)
(* multiply_add_one_rule(left, c, right): the rule with division disabled. *)
(***************************************************************************)
multiply_add_one_rule(l, ce, r) ==
  IF r = Blank /\ ce \in {Zero, One} THEN ce
  ELSE IF ce \notin Plain THEN Digit(ce.count % 2)
  ELSE collatz_rule(l, ce, r)

Rules == {"collatz", "multiply"}

\* rule(left, c, right) for the rule passed to iterate_rule
ApplyRule(ru, l, ce, r) ==
  IF ru = "collatz" THEN collatz_rule(l, ce, r)
  ELSE multiply_add_one_rule(l, ce, r)

\* faulty variant of mapsymbol: (1,0) is given the character of (0,0)
mapsymbol_Dup(st) ==
  IF st = Blank THEN "S"
  ELSE IF st = Zero THEN "0"
  ELSE IF st = One THEN "1"
  ELSE IF st = Carry(0,0) THEN "a"
  ELSE IF st = Carry(0,1) THEN "b"
  ELSE IF st = Carry(0,2) THEN "c"
  ELSE IF st = Carry(1,0) THEN "a"
  ELSE IF st = Carry(1,1) THEN "B"
  ELSE IF st = Carry(1,2) THEN "C"
  ELSE IF st = Carry(1,3) THEN "D"
  ELSE RaisedChar

(***************************************************************************)
(* mapsymbol and reversemap.                                               *)
(***************************************************************************)
mapsymbol(st) ==
  IF st = Blank THEN "S"
  ELSE IF st = Zero THEN "0"
  ELSE IF st = One THEN "1"
  ELSE IF st = Carry(0,0) THEN "a"
  ELSE IF st = Carry(0,1) THEN "b"
  ELSE IF st = Carry(0,2) THEN "c"
  ELSE IF st = Carry(1,0) THEN "A"
  ELSE IF st = Carry(1,1) THEN "B"
  ELSE IF st = Carry(1,2) THEN "C"
  ELSE IF st = Carry(1,3) THEN "D"
  ELSE RaisedChar

\* faulty variant of reversemap: an unknown character is read as Blank
RECURSIVE reversemapFrom_Default(_, _)
reversemapFrom_Default(ch, k) ==
  IF k > Len(symbols) THEN Blank
  ELSE IF mapsymbol(symbols[k]) = ch THEN symbols[k]
  ELSE reversemapFrom_Default(ch, k + 1)

RECURSIVE reversemapFrom(_, _)
reversemapFrom(ch, k) ==
  IF k > Len(symbols) THEN ValueError
  ELSE IF mapsymbol(symbols[k]) = ch THEN symbols[k]
  ELSE reversemapFrom(ch, k + 1)

reversemap(ch) == reversemapFrom(ch, 1)

Chars == { mapsymbol(symbols[k]) : k \in 1..Len(symbols) }

(***************************************************************************)
(* iterate_rule(s, rule): one tick over the whole tape.                    *)
(***************************************************************************)
\* faulty variant: the right neighbour is read one cell too far
CellOut_FarRight(tp, ru, k) ==
  LET l  == IF k > 1 THEN tp[k - 1] ELSE "S"
      r  == IF k + 1 < Len(tp) THEN tp[k + 2] ELSE "S"
      ce == tp[k]
  IN  CHOOSE ch \in
        { IF rl = ValueError \/ rc = ValueError \/ rr = ValueError
          THEN RaisedChar
          ELSE mapsymbol(ApplyRule(ru, rl, rc, rr)) :
            rl \in {reversemap(l)}, rc \in {reversemap(ce)}, rr \in {reversemap(r)} } : TRUE

\* the character appended for position k (1-based) of tape tp; the three
\* decoded cells are bound as values, so each reversemap is evaluated once
CellOut(tp, ru, k) ==
  LET l  == IF k > 1 THEN tp[k - 1] ELSE "S"
      r  == IF k < Len(tp) THEN tp[k + 1] ELSE "S"
      ce == tp[k]
  IN  CHOOSE ch \in
        { IF rl = ValueError \/ rc = ValueError \/ rr = ValueError
          THEN RaisedChar
          ELSE mapsymbol(ApplyRule(ru, rl, rc, rr)) :
            rl \in {reversemap(l)}, rc \in {reversemap(ce)}, rr \in {reversemap(r)} } : TRUE

\* the for loop: the characters of positions k..Len(tp) appended to acc, in
\* order; a raised ValueError is kept in its slot and propagated by iterate_rule
RECURSIVE RuleLoop(_, _, _, _)
RuleLoop(tp, ru, k, acc) ==
  IF k > Len(tp) THEN acc
  ELSE RuleLoop(tp, ru, k + 1, Append(acc, CellOut(tp, ru, k)))

\* str.strip("S")
RECURSIVE LStrip(_)
LStrip(str) ==
  IF str # <<>> /\ Head(str) = "S" THEN LStrip(Tail(str)) ELSE str

RECURSIVE RStrip(_)
RStrip(str) ==
  IF str # <<>> /\ str[Len(str)] = "S"
  THEN RStrip(SubSeq(str, 1, Len(str) - 1))
  ELSE str

Strip(str) == RStrip(LStrip(str))

\* "S" + "".join(t).strip("S") + "S"
Rewrap(slots) == <<"S">> \o Strip(slots) \o <<"S">>

\* the slots are bound as a value, so the loop is evaluated once
iterate_rule(tp, ru) ==
  CHOOSE nt \in
    { IF \E k \in 1..Len(slots) : slots[k] = RaisedChar
      THEN RaisedTape
      ELSE Rewrap(slots) : slots \in {RuleLoop(tp, ru, 1, <<>>)} } : TRUE

(***************************************************************************)
(* Number formatting and parsing.                                          *)
(***************************************************************************)
\* "{0:b}".format(m)
RECURSIVE Bin(_)
Bin(m) ==
  IF m < 2 THEN << IF m = 1 THEN "1" ELSE "0" >>
  ELSE Bin(m \div 2) \o << IF m % 2 = 1 THEN "1" ELSE "0" >>

IsBinary(str) == \A k \in 1..Len(str) : str[k] \in {"0", "1"}

RECURSIVE BinValue(_)
BinValue(str) ==
  IF str = <<>> THEN 0
  ELSE 2 * BinValue(SubSeq(str, 1, Len(str) - 1))
       + (IF str[Len(str)] = "1" THEN 1 ELSE 0)

\* int(str, 2): binary digits, optionally after a "0b" / "0B" prefix
ParseInt2(str) ==
  LET body == IF Len(str) >= 2 /\ str[1] = "0" /\ str[2] \in {"b", "B"}
              THEN SubSeq(str, 3, Len(str))
              ELSE str
  IN  IF body = <<>> \/ ~IsBinary(body) THEN RaisedInt ELSE BinValue(body)

\* s[1:-1]
Interior(tp) == SubSeq(tp, 2, Len(tp) - 1)

Max(a, b) == IF a > b THEN a ELSE b

(***************************************************************************)
(* run(n)                                                                  *)
(***************************************************************************)
Terminal == <<"S", "1", "S">>

\* s[:3]
Prefix3(tp) == SubSeq(tp, 1, IF Len(tp) < 3 THEN Len(tp) ELSE 3)

\* "S{0:b}S".format(m)
InitialTape(m) == <<"S">> \o Bin(m) \o <<"S">>

Inputs == (1..MaxN) \cup {DriverInput}

NoRuleVars == left = Blank /\ c = Blank /\ right = Blank /\ res = Blank

NoStepVars == t = <<>> /\ s2 = <<>> /\ t2 = <<>> /\ i = 0

Init ==
  /\ n \in Inputs
  /\ s = InitialTape(n)
  /\ steps = 0
  /\ maxlen = 0
  /\ pc = "loop"
  /\ out = <<>>
  /\ ret = <<>>
  /\ s_old = <<>>
  /\ rule = "collatz"
  /\ NoRuleVars
  /\ NoStepVars

\* faulty variant: max_length is updated only after the termination check
Return_MaxAfterCheck ==
  /\ pc = "loop"
  /\ Prefix3(s) = Terminal
  /\ out' = Append(out, s)
  /\ maxlen' = maxlen
  /\ ret' = <<steps, maxlen'>>
  /\ pc' = "done"
  /\ UNCHANGED <<n, s, steps, s_old, left, c, right, rule, res, t, s2, t2, i>>

\* one pass of the while loop that ends in the return
Return ==
  /\ pc = "loop"
  /\ Prefix3(s) = Terminal
  /\ out' = Append(out, s)
  /\ maxlen' = Max(Len(s), maxlen)
  /\ ret' = <<steps, maxlen'>>
  /\ pc' = "done"
  /\ UNCHANGED <<n, s, steps, s_old, left, c, right, rule, res, t, s2, t2, i>>

\* faulty variant: the loop does not record the tape's length
Tick_NoMaxlen ==
  /\ pc = "loop"
  /\ Prefix3(s) # Terminal
  /\ steps < MaxSteps
  /\ out' = Append(out, s)
  /\ s' = iterate_rule(s, "collatz")
  /\ steps' = steps + 1
  /\ UNCHANGED <<n, maxlen, pc, ret, s_old, left, c, right, rule, res, t, s2, t2, i>>

\* one pass of the while loop that applies a tick
Tick ==
  /\ pc = "loop"
  /\ Prefix3(s) # Terminal
  /\ steps < MaxSteps
  /\ out' = Append(out, s)
  /\ maxlen' = Max(Len(s), maxlen)
  /\ s' = iterate_rule(s, "collatz")
  /\ steps' = steps + 1
  /\ UNCHANGED <<n, pc, ret, s_old, left, c, right, rule, res, t, s2, t2, i>>

Next == Return \/ Tick

Spec == Init /\ [][Next]_vars

LiveSpec == Spec /\ WF_vars(Return) /\ WF_vars(Tick)

(***************************************************************************)
(* One call of a rule on a triple of Cell States.                          *)
(***************************************************************************)
IdleRun == steps = 0 /\ maxlen = 0 /\ out = <<>> /\ ret = <<>> /\ s_old = <<>>

RuleInit ==
  /\ left \in States /\ c \in States /\ right \in States
  /\ rule \in Rules
  /\ res = Blank
  /\ pc = "call"
  /\ n = 0 /\ s = <<>>
  /\ IdleRun
  /\ NoStepVars

RuleCall ==
  /\ pc = "call"
  /\ res' = ApplyRule(rule, left, c, right)
  /\ pc' = "returned"
  /\ UNCHANGED <<n, s, steps, maxlen, out, ret, s_old, left, c, right, rule, t, s2, t2, i>>

RuleNext == RuleCall

RuleSpec == RuleInit /\ [][RuleNext]_vars

(***************************************************************************)
(* One call of iterate_rule on a tape, and a second call on a tape that    *)
(* differs from the first in one cell.                                     *)
(***************************************************************************)
\* the tapes "S" + interior + "S" with at most MaxInterior interior cells
Tapes ==
  UNION { { <<"S">> \o in \o <<"S">> : in \in [1..k -> Chars] } : k \in 0..MaxInterior }

StepInit ==
  /\ s \in Tapes
  /\ rule \in Rules
  /\ pc = "call"
  /\ t = <<>> /\ s2 = <<>> /\ t2 = <<>> /\ i = 0
  /\ n = 0
  /\ IdleRun
  /\ NoRuleVars

\* iterate_rule(s, rule): t is the list built by the loop, ret the tape returned
StepCall ==
  /\ pc = "call"
  /\ t' = RuleLoop(s, rule, 1, <<>>)
  /\ ret' = iterate_rule(s, rule)
  /\ pc' = "stepped"
  /\ UNCHANGED <<n, s, steps, maxlen, out, s_old, left, c, right, rule, res, s2, t2, i>>

\* iterate_rule(s2, rule) for s2 = s with cell j overwritten by ch; position k,
\* at a distance of more than one cell from j, is the one observed
StepOther ==
  /\ pc = "stepped"
  /\ \E j \in 1..Len(s), k \in 1..Len(s), ch \in Chars :
       /\ j < k - 1 \/ j > k + 1
       /\ s2' = [s EXCEPT ![j] = ch]
       /\ i' = k
       /\ t2' = RuleLoop(s2', rule, 1, <<>>)
  /\ pc' = "compared"
  /\ UNCHANGED <<n, s, steps, maxlen, out, ret, s_old, left, c, right, rule, res, t>>

StepNext == StepCall \/ StepOther

StepSpec == StepInit /\ [][StepNext]_vars

(***************************************************************************)
(* One tick evaluated by one worker per cell, in any order: every worker   *)
(* reads the previous generation s and writes its own slot of t.           *)
(***************************************************************************)
Unwritten == "?"

\* faulty variant: the results are written back into the tape being read
WorkerWrite_InPlace(slots, tp, ru, k) ==
  LET cur == [j \in 1..Len(tp) |-> IF slots[j] # Unwritten THEN slots[j] ELSE tp[j]]
  IN  [slots EXCEPT ![k] = CellOut(cur, ru, k)]

\* the loop body for position k, writing slot k
WorkerWrite(slots, tp, ru, k) ==
  [slots EXCEPT ![k] = CellOut(tp, ru, k)]

ParInit ==
  /\ s \in Tapes
  /\ rule \in Rules
  /\ pc = "tick"
  /\ t = [k \in 1..Len(s) |-> Unwritten]
  /\ i = 0
  /\ s2 = <<>> /\ t2 = <<>>
  /\ n = 0
  /\ IdleRun
  /\ NoRuleVars

\* the worker of cell k runs; i remembers which worker ran first
Worker(k) ==
  /\ pc = "tick"
  /\ t[k] = Unwritten
  /\ t' = WorkerWrite(t, s, rule, k)
  /\ i' = IF i = 0 THEN k ELSE i
  /\ UNCHANGED <<n, s, steps, maxlen, pc, out, ret, s_old, left, c, right, rule, res, s2, t2>>

\* all workers are done: the slots are joined, trimmed and wrapped
Join ==
  /\ pc = "tick"
  /\ \A k \in 1..Len(s) : t[k] # Unwritten
  /\ ret' = IF \E k \in 1..Len(t) : t[k] = RaisedChar THEN RaisedTape ELSE Rewrap(t)
  /\ pc' = "joined"
  /\ UNCHANGED <<n, s, steps, maxlen, out, s_old, left, c, right, rule, res, t, s2, t2, i>>

ParNext == (\E k \in 1..Len(s) : Worker(k)) \/ Join

ParSpec == ParInit /\ [][ParNext]_vars

(***************************************************************************)
(* test_multiply(): for n = 3, 5, ..., 99 the tape S + bin(n // 2) + C + S *)
(* is stepped with multiply_add_one_rule until it stops changing, and the  *)
(* result is parsed and compared with 3 * n + 1.                           *)
(***************************************************************************)
\* "S" + "{0:b}".format(m // 2) + "CS"
MultiplyTape(m) == <<"S">> \o Bin(m \div 2) \o <<"C", "S">>

MulInit ==
  /\ n = MultiplyFirst
  /\ s = MultiplyTape(n)
  /\ s_old = <<>>
  /\ pc = "while"
  /\ rule = "multiply"
  /\ ret = <<>>
  /\ steps = 0 /\ maxlen = 0 /\ out = <<>>
  /\ NoRuleVars
  /\ NoStepVars

\* one pass of the while loop
MulTick ==
  /\ pc = "while"
  /\ s_old # s
  /\ s_old' = s
  /\ s' = iterate_rule(s, rule)
  /\ UNCHANGED <<n, steps, maxlen, pc, out, ret, left, c, right, rule, res, t, s2, t2, i>>

\* the loop has ended: x is parsed and compared, and the for loop goes on
MulCheck ==
  /\ pc = "while"
  /\ s_old = s
  /\ LET x == ParseInt2(Interior(s))
     IN  /\ ret' = <<x>>
         /\ IF x = RaisedInt \/ x # 3 * n + 1
            THEN pc' = "raised" /\ UNCHANGED <<n, s, s_old>>
            ELSE IF n + 2 < MultiplyStop
                 THEN /\ n' = n + 2
                      /\ s' = MultiplyTape(n + 2)
                      /\ s_old' = <<>>
                      /\ pc' = "while"
                 ELSE pc' = "done" /\ UNCHANGED <<n, s, s_old>>
  /\ UNCHANGED <<steps, maxlen, out, left, c, right, rule, res, t, s2, t2, i>>

MulNext == MulTick \/ MulCheck

MulSpec == MulInit /\ [][MulNext]_vars

MulLiveSpec == MulSpec /\ WF_vars(MulTick) /\ WF_vars(MulCheck)

(***************************************************************************)
(* Division: the stepper applied to the tape of an even number for as long *)
(* as the rightmost interior cell is a Zero.                               *)
(***************************************************************************)
\* the rule-1 trigger: the cell left of the right sentinel is a Zero
ZeroTrigger(tp) == Len(tp) >= 3 /\ tp[Len(tp) - 1] = "0"

DivInit ==
  /\ n \in { m \in 2..MaxDivN : m % 2 = 0 }
  /\ s = InitialTape(n)
  /\ steps = 0
  /\ pc = "divide"
  /\ rule = "collatz"
  /\ maxlen = 0 /\ out = <<>> /\ ret = <<>> /\ s_old = <<>>
  /\ NoRuleVars
  /\ NoStepVars

DivTick ==
  /\ pc = "divide"
  /\ ZeroTrigger(s)
  /\ steps < MaxSteps
  /\ s' = iterate_rule(s, rule)
  /\ steps' = steps + 1
  /\ UNCHANGED <<n, maxlen, pc, out, ret, s_old, left, c, right, rule, res, t, s2, t2, i>>

DivNext == DivTick

DivSpec == DivInit /\ [][DivNext]_vars

(***************************************************************************)
(* The symbol codec: two Cell States are turned into a two-character       *)
(* string by mapsymbol, and the string is turned back by reversemap.       *)
(***************************************************************************)
CodecInit ==
  /\ c \in States /\ right \in States
  /\ pc = "encode"
  /\ s = <<>>
  /\ t = <<>>
  /\ left = Blank /\ res = Blank
  /\ rule = "collatz"
  /\ s2 = <<>> /\ t2 = <<>> /\ i = 0
  /\ n = 0
  /\ IdleRun

\* mapsymbol(c) + mapsymbol(right)
Encode ==
  /\ pc = "encode"
  /\ s' = <<mapsymbol(c), mapsymbol(right)>>
  /\ pc' = "decode"
  /\ UNCHANGED <<n, steps, maxlen, out, ret, s_old, left, c, right, rule, res, t, s2, t2, i>>

\* [reversemap(ch) for ch in s]
Decode ==
  /\ pc = "decode"
  /\ t' = <<reversemap(s[1]), reversemap(s[2])>>
  /\ pc' = "done"
  /\ UNCHANGED <<n, s, steps, maxlen, out, ret, s_old, left, c, right, rule, res, s2, t2, i>>

CodecNext == Encode \/ Decode

CodecSpec == CodecInit /\ [][CodecNext]_vars

(***************************************************************************)
(* iterate_rule called on an arbitrary string: any length up to            *)
(* MaxTapeLen, with or without sentinels, over the 10 characters and two   *)
(* characters that stand for no Cell State.                                *)
(***************************************************************************)
Unrecognized == {"x", "2"}

AnyTapes == UNION { [1..k -> Chars \cup Unrecognized] : k \in 0..MaxTapeLen }

AnyInit ==
  /\ s \in AnyTapes
  /\ rule \in Rules
  /\ pc = "call"
  /\ t = <<>> /\ s2 = <<>> /\ t2 = <<>> /\ i = 0
  /\ n = 0
  /\ IdleRun
  /\ NoRuleVars

\* reversemap applied to every character of the string, as the loop does
AnyDecode ==
  /\ pc = "stepped"
  /\ t2' = [k \in 1..Len(s) |-> reversemap(s[k])]
  /\ pc' = "decoded"
  /\ UNCHANGED <<n, s, steps, maxlen, out, ret, s_old, left, c, right, rule, res, t, s2, i>>

AnyNext == StepCall \/ AnyDecode

AnySpec == AnyInit /\ [][AnyNext]_vars

(***************************************************************************)
(* The arithmetic Collatz iteration, for comparison.                       *)
(***************************************************************************)
\* one step: m -> m/2 (m even), m -> (3m+1)/2 (m odd), staying at 1
CollatzStep(m) ==
  IF m = 1 THEN 1
  ELSE IF m % 2 = 0 THEN m \div 2
  ELSE (3 * m + 1) \div 2

\* v is m, or the 3m+1 the step of an odd m passes through (4 and 2 for m = 1)
AtStep(v, m) ==
  \/ v = m
  \/ m % 2 = 1 /\ v = 3 * m + 1
  \/ m = 1 /\ v = 2

\* v is visited by the iteration from m: m -> m/2 (m even),
\* m -> 3m+1 -> (3m+1)/2 (m odd), down to 1 (where 1 -> 4 -> 2 -> 1);
\* eight steps are followed at each level, which keeps the recursion shallow
RECURSIVE InOrbit(_, _)
InOrbit(v, m) ==
  LET m1 == CollatzStep(m)
      m2 == CollatzStep(m1)
      m3 == CollatzStep(m2)
      m4 == CollatzStep(m3)
      m5 == CollatzStep(m4)
      m6 == CollatzStep(m5)
      m7 == CollatzStep(m6)
  IN  \/ AtStep(v, m)
      \/ AtStep(v, m1)
      \/ AtStep(v, m2)
      \/ AtStep(v, m3)
      \/ AtStep(v, m4)
      \/ AtStep(v, m5)
      \/ AtStep(v, m6)
      \/ AtStep(v, m7)
      \/ m7 # 1 /\ InOrbit(v, CollatzStep(m7))

\* the longest of the printed tapes (0 when nothing was printed)
MaxLenOf(lines) ==
  IF lines = <<>> THEN 0
  ELSE LET lens == { Len(lines[k]) : k \in 1..Len(lines) }
       IN  CHOOSE a \in lens : \A b \in lens : a >= b

(***************************************************************************)
(* C1: every generation of run(n) whose interior holds only Zero/One cells *)
(* decodes, most significant bit first, to a number the arithmetic Collatz *)
(* iteration from n visits.                                                *)
(***************************************************************************)
C1_SettledInOrbit ==
  IsBinary(Interior(s)) => InOrbit(ParseInt2(Interior(s)), n)

\* a settled generation after at least two ticks, showing neither n nor 1
C1_Witness ==
  /\ steps >= 2
  /\ IsBinary(Interior(s))
  /\ ParseInt2(Interior(s)) \notin {n, 1}

(***************************************************************************)
(* C7: for every n of the range, run(n) eventually reaches the terminal    *)
(* tape S1S and returns.                                                   *)
(***************************************************************************)
C7_Terminates == <>(pc = "done" /\ s = Terminal)

\* a run that returned after more than a hundred ticks
C7_Witness == pc = "done" /\ s = Terminal /\ steps > 100

(***************************************************************************)
(* C8: run(6171) terminates within 500 ticks and reports a max_length of   *)
(* at least the length of its initial tape (15 cells).                     *)
(***************************************************************************)
C8_DriverRun ==
  (n = DriverInput) =>
    <>(/\ pc = "done"
       /\ ret[1] <= 500
       /\ ret[2] >= Len(InitialTape(DriverInput))
       /\ Len(InitialTape(DriverInput)) = 15)

C8_Witness == n = DriverInput /\ pc = "done" /\ steps > 0

(***************************************************************************)
(* C9: run returns at the first generation whose tape is exactly S1S and   *)
(* at no earlier one, with steps = the ticks applied before it and         *)
(* max_length = the longest tape seen; run(1) returns (0, 3); the test of  *)
(* the first three symbols coincides with the whole tape being S1S.        *)
(***************************************************************************)
C9_TerminalDetection ==
  /\ Prefix3(s) = Terminal <=> s = Terminal
  /\ \A k \in 1..Len(out) : out[k] = Terminal => (pc = "done" /\ k = Len(out))
  /\ pc = "loop" => steps = Len(out)
  /\ pc = "done" =>
       /\ out[Len(out)] = Terminal
       /\ ret = <<Len(out) - 1, MaxLenOf(out)>>
       /\ n = 1 => ret = <<0, 3>>

\* a run that returned after at least one tick
C9_Witness == pc = "done" /\ ret[1] > 0 /\ ret[2] > 3

AgreeAround(a, b, k) ==
  /\ Len(a) = Len(b)
  /\ \A j \in 1..Len(a) : (k - 1 <= j /\ j <= k + 1) => a[j] = b[j]

C3_Locality ==
  (pc = "compared" /\ AgreeAround(s, s2, i)) => t[i] = t2[i]

\* a far cell was changed, the tick's output changed elsewhere, not at i
C3_Witness ==
  /\ pc = "compared"
  /\ AgreeAround(s, s2, i)
  /\ s2 # s
  /\ t2 # t
  /\ t[i] = t2[i]

(***************************************************************************)
(* C4: collatz_rule is total and closed: on each of the 1000 triples of    *)
(* Cell States it returns one of the 10 Cell States; a Carry State built   *)
(* by rule 4 has count <= 3 and is one of the seven listed pairs.          *)
(***************************************************************************)
CarryStates ==
  { Carry(0,0), Carry(0,1), Carry(0,2), Carry(1,0), Carry(1,1), Carry(1,2), Carry(1,3) }

C4_TotalClosed ==
  (pc = "returned" /\ rule = "collatz") =>
    /\ res \in States
    /\ mapsymbol(res) # RaisedChar
    /\ res \notin Plain => (res \in CarryStates /\ res.count <= 3)

\* rule 4 at its largest sum: One with Carry(1,3) on its right
C4_Witness ==
  /\ pc = "returned" /\ rule = "collatz"
  /\ c = One /\ right = Carry(1, 3)
  /\ res = Carry(1, 3)

(***************************************************************************)
(* C10 (as stated): applying iterate_rule with collatz_rule to the         *)
(* terminal tape S1S yields S1S back.                                      *)
(***************************************************************************)
C10_Original ==
  (pc = "stepped" /\ rule = "collatz" /\ s = Terminal) => ret = Terminal

(***************************************************************************)
(* C10 (amended): applying iterate_rule with collatz_rule to the terminal  *)
(* tape S1S yields Blank, Carry(1,2), Blank: rule 2, the multiply trigger, *)
(* matches One with Blank on its right before rule 5 is reached.           *)
(***************************************************************************)
C10_TerminalStep ==
  (pc = "stepped" /\ rule = "collatz" /\ s = Terminal) =>
    /\ t = <<"S", mapsymbol(Carry(1, 2)), "S">>
    /\ ret = <<"S", "C", "S">>

C10_Witness == pc = "stepped" /\ rule = "collatz" /\ s = Terminal /\ ret # s

(***************************************************************************)
(* C5: multiply correctness.  For every odd n in 3, 5, ..., 99 the tape    *)
(* Blank, binary(n div 2), Carry(1,2), Blank stepped with the Auxiliary    *)
(* Rule reaches a fixed point whose interior holds Zero/One cells only and *)
(* decodes to 3 * n + 1: every while loop of test_multiply ends, no check  *)
(* raises, and the for loop runs through to n = 99.                        *)
(***************************************************************************)
C5_MultiplyCorrect ==
  /\ [](/\ n \in { m \in MultiplyFirst..(MultiplyStop - 1) : m % 2 = 1 }
        /\ pc # "raised"
        /\ (pc = "while" /\ s_old = s) =>
             /\ iterate_rule(s, "multiply") = s
             /\ IsBinary(Interior(s))
             /\ BinValue(Interior(s)) = 3 * n + 1)
  /\ <>(pc = "done" /\ n = MultiplyStop - 1)

\* the fixed point of the last case: 3 * 99 + 1 = 298
C5_Witness ==
  /\ n = 99
  /\ pc = "while" /\ s_old = s
  /\ s = <<"S">> \o Bin(298) \o <<"S">>

(***************************************************************************)
(* C6 (as stated): for a tape encoding an even n, applying the stepper     *)
(* until no rightmost-Zero trigger remains yields a tape decoding to n/2.  *)
(***************************************************************************)
C6_Original ==
  (steps > 0 /\ ~ZeroTrigger(s)) => ParseInt2(Interior(s)) = n \div 2

(***************************************************************************)
(* C6 (amended): for a tape encoding an even n, each application of the    *)
(* stepper while a rightmost-Zero trigger remains divides by 2: one        *)
(* application yields a tape decoding to n/2, k applications to n / 2^k,   *)
(* and when no trigger remains the tape decodes to the odd part of n.      *)
(***************************************************************************)
RECURSIVE OddPart(_)
OddPart(m) == IF m % 2 = 0 /\ m > 0 THEN OddPart(m \div 2) ELSE m

C6_Division ==
  /\ IsBinary(Interior(s))
  /\ steps = 1 => ParseInt2(Interior(s)) = n \div 2
  /\ ParseInt2(Interior(s)) * (2 ^ steps) = n
  /\ ~ZeroTrigger(s) => ParseInt2(Interior(s)) = OddPart(n)

\* three halvings were needed before the trigger disappeared
C6_Witness ==
  /\ steps = 3
  /\ ~ZeroTrigger(s)
  /\ ParseInt2(Interior(s)) # n \div 2

(***************************************************************************)
(* C11: alphabet round trip.  mapsymbol maps the 10 Cell States to the 10  *)
(* pairwise distinct characters S 0 1 a b c A B C D, and                   *)
(* reversemap(mapsymbol(st)) = st for every Cell State st.                 *)
(***************************************************************************)
TenChars == {"S", "0", "1", "a", "b", "c", "A", "B", "C", "D"}

C11_RoundTrip ==
  /\ pc \in {"decode", "done"} =>
       /\ s[1] \in TenChars /\ s[2] \in TenChars
       /\ s[1] = s[2] => c = right
  /\ pc = "done" => (t[1] = c /\ t[2] = right)

\* two different carry states encoded and decoded
C11_Witness ==
  /\ pc = "done"
  /\ c = Carry(1, 0) /\ right = Carry(0, 0)
  /\ s = <<"A", "a">>
  /\ t = <<c, right>>

(***************************************************************************)
(* C12: unrecognized symbol.  reversemap applied to a character that is    *)
(* not one of the 10 assigned characters ends in ValueError rather than    *)
(* returning a state, and iterate_rule applied to a tape containing such a *)
(* character fails with that error without producing a next tape.          *)
(***************************************************************************)
C12_Unrecognized ==
  pc = "decoded" =>
    /\ \A k \in 1..Len(s) :
         s[k] \notin TenChars => (t2[k] = ValueError /\ t2[k] \notin States)
    /\ (\E k \in 1..Len(s) : s[k] \notin TenChars) => ret = RaisedTape

\* a well-flanked tape whose only interior cell is no symbol
C12_Witness ==
  /\ pc = "decoded"
  /\ s = <<"S", "x", "S">>
  /\ t2[2] = ValueError
  /\ ret = RaisedTape

(***************************************************************************)
(* C13: malformed tape.  iterate_rule given a tape that does not start and *)
(* end with a Blank sentinel fails with an error and produces no next      *)
(* tape, rather than wrapping the result in sentinels.                     *)
(***************************************************************************)
Malformed(tp) == tp = <<>> \/ tp[1] # "S" \/ tp[Len(tp)] # "S"

C13_FailFast ==
  (pc \in {"stepped", "decoded"} /\ Malformed(s)) => ret = RaisedTape

(***************************************************************************)
(* C14: tape shape.  Every tape reached by run(n) starts with a Blank,     *)
(* ends with a Blank and holds no Blank strictly between the two; a tick   *)
(* yields a Blank only at the rightmost interior cell or at a sentinel, so *)
(* trimming the ends removes every Blank the tick created.                 *)
(***************************************************************************)
CarryChars == {"a", "b", "c", "A", "B", "C", "D"}

C14_TapeShape ==
  /\ Len(s) >= 2
  /\ s[1] = "S" /\ s[Len(s)] = "S"
  /\ \A k \in 2..(Len(s) - 1) : s[k] # "S"
  /\ \A slots \in {RuleLoop(s, "collatz", 1, <<>>)} :
       /\ \A k \in 1..Len(slots) :
            slots[k] = "S" => k \in {1, Len(s) - 1, Len(s)}
       /\ \A k \in 2..(Len(Rewrap(slots)) - 1) : Rewrap(slots)[k] # "S"

\* a carry at the rightmost interior cell is about to be erased by the tick,
\* while the left sentinel is about to become a carry
C14_Witness ==
  /\ pc = "loop"
  /\ steps > 0
  /\ Len(s) >= 4
  /\ s[Len(s) - 1] \in CarryChars
  /\ RuleLoop(s, "collatz", 1, <<>>)[Len(s) - 1] = "S"
  /\ RuleLoop(s, "collatz", 1, <<>>)[1] \in CarryChars

(***************************************************************************)
(* C15 as stated: every Carry State (bit, count) returned by collatz_rule  *)
(* has bit equal to the parity of count.                                   *)
(***************************************************************************)
C15_Original ==
  (pc = "returned" /\ rule = "collatz" /\ res \in CarryStates)
    => res.bit = res.count % 2

(***************************************************************************)
(* C15: every Carry State (bit, count) returned by collatz_rule has bit    *)
(* equal to the digit z the centre cell held before (1 for One, 0 for Zero *)
(* and Blank); the digit rule 3 then settles the cell to is One exactly    *)
(* when count is odd, whatever bit is.  bit and the parity of count differ *)
(* for (0,1), (1,0) and (1,2), and (0,1) and (1,2) are returned.           *)
(***************************************************************************)
C15_CarryBit ==
  (pc = "returned" /\ rule = "collatz" /\ res \in CarryStates)
    => /\ res.bit = (IF c = One THEN 1 ELSE 0)
       /\ c \in Plain
       /\ \A l2 \in States, r2 \in States :
            (collatz_rule(l2, res, r2) = One) <=> (res.count % 2 = 1)

\* One left of the carry (0,2): the result (1,2) has bit 1 and an even count
C15_Witness ==
  /\ pc = "returned"
  /\ rule = "collatz"
  /\ c = One
  /\ right = Carry(0, 2)
  /\ res = Carry(1, 2)
  /\ res.bit # res.count % 2

(***************************************************************************)
(* C16: carry resolution.  For every triple whose centre is a Carry State  *)
(* (bit, count), collatz_rule returns One when count is odd, otherwise     *)
(* Blank when right is Blank, otherwise Zero, and never a Carry State; so  *)
(* in the slots of one tick of run(n), which are aligned with the cells of *)
(* the tape before trimming, a cell holding a Carry State holds none in    *)
(* the next generation, the rightmost interior cell included.              *)
(***************************************************************************)
C16_Rule3 ==
  \A ce \in CarryStates, l \in States, r \in States :
    collatz_rule(l, ce, r) =
      IF ce.count % 2 = 1 THEN One
      ELSE IF r = Blank THEN Blank
      ELSE Zero

C16_CarryResolution ==
  /\ C16_Rule3
  /\ \A slots \in {RuleLoop(s, "collatz", 1, <<>>)} :
       /\ Len(slots) = Len(s)
       /\ \A k \in 1..Len(s) :
            s[k] \in CarryChars =>
              /\ slots[k] \in {"S", "0", "1"}
              /\ slots[k] = mapsymbol(collatz_rule(Blank, reversemap(s[k]),
                                                   reversemap(s[k + 1])))

\* one tape with an even carry inside (settling to Zero) and an even carry at
\* the right boundary (settling to Blank)
C16_Witness ==
  /\ pc = "loop"
  /\ \E k \in 2..(Len(s) - 2) :
       /\ s[k] \in {"a", "c", "C"}
       /\ RuleLoop(s, "collatz", 1, <<>>)[k] = "0"
  /\ \E k \in 2..(Len(s) - 2) :
       /\ s[k] \in {"b", "B", "D"}
       /\ RuleLoop(s, "collatz", 1, <<>>)[k] = "1"
  /\ s[Len(s) - 1] \in {"a", "c", "C"}
  /\ RuleLoop(s, "collatz", 1, <<>>)[Len(s) - 1] = "S"

(***************************************************************************)
(* C17: in every tape reached by run(n) no two adjacent cells both hold a  *)
(* Carry State, so whenever rule 4 applies (right is a Carry State) the    *)
(* centre is Blank, Zero or One.                                           *)
(***************************************************************************)
C17_NoAdjacentCarries ==
  \A k \in 1..(Len(s) - 1) :
    /\ ~(s[k] \in CarryChars /\ s[k + 1] \in CarryChars)
    /\ s[k + 1] \in CarryChars => reversemap(s[k]) \in Plain

\* two multiply waves in flight, one settled digit apart
C17_Witness ==
  /\ pc = "loop"
  /\ \E k \in 1..(Len(s) - 2) :
       /\ s[k] \in CarryChars
       /\ s[k + 1] \in {"0", "1"}
       /\ s[k + 2] \in CarryChars

(***************************************************************************)
(* C18: in every tape reached by run(n) the interior is non-empty and its  *)
(* leftmost cell is not Zero: the tape Blank, Blank is never reached and   *)
(* no leading zero digit is created, also when a carry wave extends the    *)
(* tape by one cell on the left.                                           *)
(***************************************************************************)
C18_NoLeadingZero ==
  /\ Interior(s) # <<>>
  /\ Len(s) >= 3
  /\ s[2] # "0"
  /\ s[2] # "S"

\* the wave has just passed the top digit: the tape grew by one cell on the
\* left and the new leftmost cell is a carry that settles to One
C18_Witness ==
  /\ pc = "loop"
  /\ steps > 0
  /\ Len(s) = Len(out[Len(out)]) + 1
  /\ s[2] \in CarryChars
  /\ RuleLoop(s, "collatz", 1, <<>>)[2] = "1"

(***************************************************************************)
(* C19: the Carry State (1,0), one of the 10 symbols, is returned by       *)
(* collatz_rule for none of the 1000 triples, and its character "A" is in  *)
(* no tape reached by run(n), nor in the slots of any tick.                *)
(***************************************************************************)
C19_Rule ==
  \A l \in States, ce \in States, r \in States :
    collatz_rule(l, ce, r) # Carry(1, 0)

C19_NeverOneZero ==
  /\ Carry(1, 0) \in States
  /\ mapsymbol(Carry(1, 0)) = "A"
  /\ C19_Rule
  /\ \A k \in 1..Len(s) : s[k] # "A"
  /\ \A slots \in {RuleLoop(s, "collatz", 1, <<>>)} :
       \A k \in 1..Len(slots) : slots[k] # "A"

\* a One left of a carry with bit 0 and count below 2: the sum is z alone and
\* the result is (1,1), the carry state closest to (1,0)
C19_Witness ==
  /\ pc = "loop"
  /\ \E k \in 2..(Len(s) - 1) :
       /\ s[k] = "1"
       /\ s[k + 1] \in {"a", "b"}
       /\ RuleLoop(s, "collatz", 1, <<>>)[k] = "B"

(***************************************************************************)
(* C20: information flows from right to left only.  collatz_rule and       *)
(* multiply_add_one_rule return the same result for all 10 values of left; *)
(* in every tick of run(n) the slot of the right sentinel stays Blank, and *)
(* the next tape is at most one cell longer than the tape, the extra cell  *)
(* being the slot of the left sentinel.                                    *)
(***************************************************************************)
C20_IgnoresLeft ==
  \A ru \in Rules, l \in States, ce \in States, r \in States :
    ApplyRule(ru, l, ce, r) = ApplyRule(ru, Blank, ce, r)

C20_RightToLeft ==
  /\ C20_IgnoresLeft
  /\ \A slots \in {RuleLoop(s, "collatz", 1, <<>>)} :
       /\ slots[Len(slots)] = "S"
       /\ Len(Rewrap(slots)) <= Len(s) + 1
       /\ Len(Rewrap(slots)) = Len(s) + 1 =>
            /\ slots[1] # "S"
            /\ slots[Len(s) - 1] # "S"
  /\ steps > 0 => Len(s) <= Len(out[Len(out)]) + 1

\* a tick that extends the tape on the left while rule 2 fires next to the
\* right sentinel, which stays Blank
C20_Witness ==
  /\ pc = "loop"
  /\ s[Len(s) - 1] = "1"
  /\ RuleLoop(s, "collatz", 1, <<>>)[Len(s) - 1] = "C"
  /\ RuleLoop(s, "collatz", 1, <<>>)[Len(s)] = "S"
  /\ RuleLoop(s, "collatz", 1, <<>>)[1] \in CarryChars
  /\ Len(iterate_rule(s, "collatz")) = Len(s) + 1

====
